---------------------------- MODULE Spec2Model ----------------------------
(***************************************************************************)
(* nil-triggers: the heuristic detection library of the nil protocol.      *)
(*                                                                         *)
(* The library is a set of pure functions over a conversation (a sequence  *)
(* of messages).  The model keeps the caller's conversation, the last call *)
(* made on it and one call the caller made before; the caller appends      *)
(* messages and calls the detectors.                                       *)
(*                                                                         *)
(* Text is a sequence of one-character strings.  JavaScript numbers are    *)
(* modelled as exact rationals extended with NaN, +Infinity and -Infinity  *)
(* (rounding of IEEE doubles is not modelled).                             *)
(***************************************************************************)
EXTENDS Integers, Sequences, FiniteSets, TLC

VARIABLES messages, call, past

vars == <<messages, call, past>>

(***************************************************************************)
(* Bounds of the model.                                                    *)
(***************************************************************************)
MaxMsgs == 4
MaxTs == 2

(***************************************************************************)
(* Characters and strings.                                                 *)
(***************************************************************************)
UpperChars ==
  <<"A","B","C","D","E","F","G","H","I","J","K","L","M",
    "N","O","P","Q","R","S","T","U","V","W","X","Y","Z">>

LowerChars ==
  <<"a","b","c","d","e","f","g","h","i","j","k","l","m",
    "n","o","p","q","r","s","t","u","v","w","x","y","z">>

DigitChars == {"0","1","2","3","4","5","6","7","8","9"}

Range(s) == {s[i] : i \in DOMAIN s}

\* String.prototype.toLowerCase, one character
toLowerChar(c) ==
  IF \E i \in DOMAIN UpperChars : UpperChars[i] = c
  THEN LowerChars[CHOOSE i \in DOMAIN UpperChars : UpperChars[i] = c]
  ELSE c

\* String.prototype.toLowerCase
toLowerCase(text) == [i \in DOMAIN text |-> toLowerChar(text[i])]

WordChars == Range(UpperChars) \cup Range(LowerChars) \cup DigitChars \cup {"_"}

\* the regular expression class \w
isWordChar(c) == c \in WordChars

\* the regular expression class \s
isSpaceChar(c) == c \in {" ", "\t", "\n"}

\* String.prototype.includes: pattern occurs in text as a substring
includes(text, pattern) ==
  \E i \in 0..(Len(text) - Len(pattern)) :
     \A j \in 1..Len(pattern) : text[i + j] = pattern[j]

\* Array.prototype.slice(start, end), negative indices counted from the end
sliceIndex(k, len) ==
  IF k < 0 THEN (IF len + k < 0 THEN 0 ELSE len + k)
           ELSE (IF k > len THEN len ELSE k)

slice(arr, start, end) ==
  LET from == sliceIndex(start, Len(arr))
      to   == sliceIndex(end, Len(arr))
  IN IF to <= from THEN <<>> ELSE SubSeq(arr, from + 1, to)

\* Array.prototype.slice(start)
sliceFrom(arr, start) == slice(arr, start, Len(arr))

(***************************************************************************)
(* JavaScript numbers: [k |-> "fin", n, d] is n/d with d > 0.              *)
(***************************************************************************)
Fin(n) == [k |-> "fin", n |-> n, d |-> 1]
Ratio(n, d) == [k |-> "fin", n |-> n, d |-> d]
NaN == [k |-> "nan", n |-> 0, d |-> 1]
PosInf == [k |-> "inf", n |-> 1, d |-> 1]
NegInf == [k |-> "ninf", n |-> -1, d |-> 1]

\* the sign of a number; NaN has none
Sign(x) ==
  CASE x.k = "nan" -> 0
    [] x.k = "inf" -> 1
    [] x.k = "ninf" -> -1
    [] OTHER -> (IF x.n > 0 THEN 1 ELSE IF x.n < 0 THEN -1 ELSE 0)

\* the operator / on numbers
Div(a, b) ==
  CASE a.k = "nan" \/ b.k = "nan" -> NaN
    [] a.k # "fin" /\ b.k # "fin" -> NaN
    [] a.k # "fin" ->
         (IF Sign(a) * (IF b.n < 0 THEN -1 ELSE 1) > 0 THEN PosInf ELSE NegInf)
    [] b.k # "fin" -> Fin(0)
    [] b.n = 0 ->
         (IF a.n = 0 THEN NaN ELSE IF a.n > 0 THEN PosInf ELSE NegInf)
    [] OTHER ->
         (IF b.n > 0 THEN Ratio(a.n * b.d, a.d * b.n)
                     ELSE Ratio(-(a.n * b.d), a.d * (-b.n)))

\* the operator <= on numbers (false when either is NaN)
Le(a, b) ==
  CASE a.k = "nan" \/ b.k = "nan" -> FALSE
    [] a.k = "ninf" \/ b.k = "inf" -> TRUE
    [] a.k = "inf" \/ b.k = "ninf" -> FALSE
    [] OTHER -> a.n * b.d <= b.n * a.d

\* the operator >= on numbers
Ge(a, b) == Le(b, a)

\* the operator > on numbers
Gt(a, b) ==
  CASE a.k = "nan" \/ b.k = "nan" -> FALSE
    [] OTHER -> ~Le(a, b)

RECURSIVE SumSeq(_)
\* reduce((a, b) => a + b, 0) over integers
SumSeq(s) == IF s = <<>> THEN 0 ELSE s[1] + SumSeq(Tail(s))

(***************************************************************************)
(* Internals: tokeniser, similarity, gaps.                                 *)
(***************************************************************************)
RECURSIVE splitStep(_, _, _, _)
\* String.prototype.split(/\s+/): cut text at every maximal run of whitespace;
\* pieces are the ones already cut, cur the piece being read
splitStep(text, pieces, cur, prevSpace) ==
  IF text = <<>> THEN Append(pieces, cur)
  ELSE IF isSpaceChar(Head(text))
       THEN (IF prevSpace
             THEN splitStep(Tail(text), pieces, cur, TRUE)
             ELSE splitStep(Tail(text), Append(pieces, cur), <<>>, TRUE))
       ELSE splitStep(Tail(text), pieces, Append(cur, Head(text)), FALSE)

splitWhitespace(text) == splitStep(text, <<>>, <<>>, FALSE)

\* tokenise: lower-case, drop every character that is neither \w nor \s,
\* split on whitespace, drop the empty pieces
tokenise(text) ==
  LET lower    == toLowerCase(text)
      stripped == SelectSeq(lower, LAMBDA c : isWordChar(c) \/ isSpaceChar(c))
  IN SelectSeq(splitWhitespace(stripped), LAMBDA t : t # <<>>)

\* property names every object literal inherits from Object.prototype and that
\* a lower-case \w token can spell
ConstructorKey == <<"c","o","n","s","t","r","u","c","t","o","r">>
ProtoKey == <<"_","_","p","r","o","t","o","_","_">>

\* JavaScript values met in the frequency maps
JsNumber(n) == [t |-> "number", n |-> n]
JsNaN == [t |-> "nan", n |-> 0]
JsUndefined == [t |-> "undefined", n |-> 0]
JsFunction == [t |-> "function", n |-> 0]
JsObject == [t |-> "object", n |-> 0]
JsString == [t |-> "string", n |-> 0]

\* map[key] on an object literal: own property, else the inherited one
getProperty(map, key) ==
  IF key \in DOMAIN map THEN map[key]
  ELSE IF key = ConstructorKey THEN JsFunction
  ELSE IF key = ProtoKey THEN JsObject
  ELSE JsUndefined

\* x || 0
orZero(x) ==
  IF x.t = "undefined" \/ x.t = "nan" \/ (x.t = "number" /\ x.n = 0)
  THEN JsNumber(0) ELSE x

\* x + 1: a number is incremented, anything else is concatenated into a string
plusOne(x) == IF x.t = "number" THEN JsNumber(x.n + 1) ELSE JsString

\* x * y: the strings met here do not spell numbers
jsMul(x, y) ==
  IF x.t = "number" /\ y.t = "number" THEN JsNumber(x.n * y.n) ELSE JsNaN

\* x + y on numbers
jsAdd(x, y) ==
  IF x.t = "number" /\ y.t = "number" THEN JsNumber(x.n + y.n) ELSE JsNaN

\* map[key] = value: assigning a non-object to __proto__ is ignored
setProperty(map, key, value) ==
  IF key = ProtoKey THEN map
  ELSE [k \in DOMAIN map \cup {key} |-> IF k = key THEN value ELSE map[k]]

RECURSIVE freqStep(_, _)
freqStep(tokens, map) ==
  IF tokens = <<>> THEN map
  ELSE freqStep(Tail(tokens),
                setProperty(map, Head(tokens),
                            plusOne(orZero(getProperty(map, Head(tokens))))))

\* freq: the term-frequency map of a token array
freq(tokens) == freqStep(tokens, <<>>)

RECURSIVE sumOver(_, _, _)
\* the accumulation loop over allKeys: term[key] added to acc, key by key
sumOver(keys, term, acc) ==
  IF keys = {} THEN acc
  ELSE LET key == CHOOSE k \in keys : TRUE
       IN sumOver(keys \ {key}, term, jsAdd(acc, term[key]))

\* a similarity: dot / sqrt(sq), or NaN
SimZero == [k |-> "fin", dot |-> 0, sq |-> 1]
SimNaN == [k |-> "nan", dot |-> 0, sq |-> 1]

\* cosineSimilarity of two token arrays
cosineSimilarity(tokensA, tokensB) ==
  LET a == freq(tokensA)
      b == freq(tokensB)
      allKeys == DOMAIN a \cup DOMAIN b
      va(key) == orZero(getProperty(a, key))
      vb(key) == orZero(getProperty(b, key))
      dot  == sumOver(allKeys, [key \in allKeys |-> jsMul(va(key), vb(key))], JsNumber(0))
      magA == sumOver(allKeys, [key \in allKeys |-> jsMul(va(key), va(key))], JsNumber(0))
      magB == sumOver(allKeys, [key \in allKeys |-> jsMul(vb(key), vb(key))], JsNumber(0))
      denomSq == jsMul(magA, magB)
  IN IF denomSq.t = "number" /\ denomSq.n = 0 THEN SimZero
     ELSE IF denomSq.t = "number" /\ dot.t = "number"
          THEN [k |-> "fin", dot |-> dot.n, sq |-> denomSq.n]
          ELSE SimNaN

\* s >= floor, for a similarity s and a rational floor
simGe(s, floor) ==
  /\ s.k = "fin"
  /\ \/ floor.n <= 0
     \/ s.dot * s.dot * floor.d * floor.d >= floor.n * floor.n * s.sq

\* getGaps with the subtraction the wrong way round
getGapsSwapped(msgs) ==
  [i \in 1..(Len(msgs) - 1) |-> msgs[i].timestamp - msgs[i + 1].timestamp]

\* getGaps: time gaps between consecutive messages
getGaps(msgs) ==
  [i \in 1..(Len(msgs) - 1) |-> msgs[i + 1].timestamp - msgs[i].timestamp]

\* the default requestPatterns of detectSaturation
DefaultRequestPatterns ==
  << <<"c","a","n"," ","y","o","u"," ","a","l","s","o">>,
     <<"w","h","a","t"," ","a","b","o","u","t">>,
     <<"a","n","o","t","h","e","r">>,
     <<"m","o","r","e">>,
     <<"o","n","e"," ","m","o","r","e">>,
     <<"a","n","y","t","h","i","n","g"," ","e","l","s","e">>,
     <<"w","h","a","t"," ","e","l","s","e">>,
     <<"g","i","v","e"," ","m","e">>,
     <<"h","o","w"," ","a","b","o","u","t">>,
     <<"a","n","d"," ","a","l","s","o">>,
     <<"a","d","d","i","t","i","o","n","a","l","l","y">> >>

(***************************************************************************)
(* Options and completions.                                                *)
(***************************************************************************)
\* a destructured option with its default
optionOr(options, field, default) ==
  IF field \in DOMAIN options THEN options[field] ELSE default

\* a call returns a value, or throws
Return(v) == [type |-> "normal", value |-> v, error |-> "none"]
Throw(e, v) == [type |-> "throw", value |-> v, error |-> e]

\* isUser taking every role but assistant for the user's
isNotAssistant(m) == m.role # "assistant"

\* a role filter that lets every message through
isAnyRole(m) == m.role \in {"user", "assistant"}

isUser(m) == m.role = "user"

\* reduce((sum, m) => sum + m.content.length, 0)
totalLength(msgs) == SumSeq([i \in DOMAIN msgs |-> Len(msgs[i].content)])

(***************************************************************************)
(* The detectors.  Each takes the conversation and its options record (a   *)
(* record that may lack any field; the empty record stands for an absent   *)
(* or empty options argument) and yields a completion.                     *)
(***************************************************************************)
\* detectLoop without the early return on too few user messages
detectLoopNoEarlyReturn(msgs, options) ==
  LET threshold       == optionOr(options, "threshold", 3)
      similarityFloor == optionOr(options, "similarityFloor", Ratio(3, 5))
      userMessages    == sliceFrom(SelectSeq(msgs, LAMBDA m : m.role = "user"),
                                   -threshold - 1)
      recent          == sliceFrom(userMessages, -threshold)
      similarities    ==
        [i \in 1..(Len(recent) - 1) |->
           cosineSimilarity(tokenise(recent[i].content),
                            tokenise(recent[i + 1].content))]
  IN Return(\A i \in DOMAIN similarities :
               simGe(similarities[i], similarityFloor))

\* detectLoop
detectLoop(msgs, options) ==
  LET threshold       == optionOr(options, "threshold", 3)
      similarityFloor == optionOr(options, "similarityFloor", Ratio(3, 5))
      userMessages    == sliceFrom(SelectSeq(msgs, isUser), -threshold - 1)
      recent          == sliceFrom(userMessages, -threshold)
      similarities    ==
        [i \in 1..(Len(recent) - 1) |->
           cosineSimilarity(tokenise(recent[i].content),
                            tokenise(recent[i + 1].content))]
  IN IF Len(userMessages) < threshold THEN Return(FALSE)
     ELSE Return(\A i \in DOMAIN similarities :
                    simGe(similarities[i], similarityFloor))

\* detectVelocityCollapse
detectVelocityCollapse(msgs, options) ==
  LET lengthDropRatio    == optionOr(options, "lengthDropRatio", Ratio(3, 10))
      frequencyDropRatio == optionOr(options, "frequencyDropRatio", Fin(3))
      windowSize         == optionOr(options, "windowSize", 4)
      userMessages     == SelectSeq(msgs, isUser)
      earlier          == slice(userMessages, 0, -windowSize)
      recent           == sliceFrom(userMessages, -windowSize)
      earlierAvgLength == Div(Fin(totalLength(earlier)), Fin(Len(earlier)))
      recentAvgLength  == Div(Fin(totalLength(recent)), Fin(Len(recent)))
      earlierGaps      == getGaps(earlier)
      recentGaps       == getGaps(recent)
      earlierAvgGap    == Div(Fin(SumSeq(earlierGaps)), Fin(Len(earlierGaps)))
      recentAvgGap     == Div(Fin(SumSeq(recentGaps)), Fin(Len(recentGaps)))
  IN IF Len(userMessages) < windowSize * 2 THEN Return(FALSE)
     ELSE IF /\ Gt(earlierAvgLength, Fin(0))
             /\ Le(Div(recentAvgLength, earlierAvgLength), lengthDropRatio)
          THEN Return(TRUE)
     ELSE IF Len(earlierGaps) = 0 \/ Len(recentGaps) = 0 THEN Return(FALSE)
     ELSE IF /\ Gt(earlierAvgGap, Fin(0))
             /\ Ge(Div(recentAvgGap, earlierAvgGap), frequencyDropRatio)
          THEN Return(TRUE)
     ELSE Return(FALSE)

\* questionCount with startsWith in place of includes
questionCountStartsWith(msgs) ==
  Len(SelectSeq(msgs, LAMBDA m : Len(m.content) > 0 /\ m.content[1] = "?"))

\* the number of messages whose content includes "?"
questionCount(msgs) ==
  Len(SelectSeq(msgs, LAMBDA m : includes(m.content, <<"?">>)))

\* detectScopeCreep
detectScopeCreep(msgs, options) ==
  LET windowSize  == optionOr(options, "windowSize", 5)
      growthRatio == optionOr(options, "growthRatio", Ratio(3, 2))
      userMessages     == SelectSeq(msgs, isUser)
      earlier          == slice(userMessages, -windowSize * 2, -windowSize)
      recent           == sliceFrom(userMessages, -windowSize)
      earlierAvgLength == Div(Fin(totalLength(earlier)), Fin(Len(earlier)))
      recentAvgLength  == Div(Fin(totalLength(recent)), Fin(Len(recent)))
  IN IF Len(userMessages) < windowSize * 2 THEN Return(FALSE)
     ELSE IF Ge(Div(recentAvgLength, earlierAvgLength), growthRatio)
          THEN (IF questionCount(recent) >= questionCount(earlier)
                THEN Return(TRUE) ELSE Return(FALSE))
     ELSE Return(FALSE)

\* isRequestingMore without the lower-casing of the content
isRequestingMoreCaseSensitive(m, requestPatterns) ==
  \E i \in DOMAIN requestPatterns : includes(m.content, requestPatterns[i])

\* the user message asks for more: its lower-cased content includes a pattern
isRequestingMore(m, requestPatterns) ==
  LET lower == toLowerCase(m.content)
  IN \E i \in DOMAIN requestPatterns : includes(lower, requestPatterns[i])

\* detectSaturation reading the timestamp of the last substantive response
\* in place of the assistantResponseThreshold-th
detectSaturationLastResponse(msgs, options) ==
  LET assistantResponseThreshold ==
        optionOr(options, "assistantResponseThreshold", 3)
      minAssistantLength == optionOr(options, "minAssistantLength", 200)
      requestPatterns == optionOr(options, "requestPatterns", DefaultRequestPatterns)
      substantiveResponses ==
        SelectSeq(msgs, LAMBDA m : m.role = "assistant"
                                     /\ Len(m.content) >= minAssistantLength)
      index == Len(substantiveResponses) - 1
      thresholdTimestamp == substantiveResponses[index + 1].timestamp
      userMessagesAfterThreshold ==
        SelectSeq(msgs, LAMBDA m : isUser(m) /\ m.timestamp > thresholdTimestamp)
      requestingMore ==
        SelectSeq(userMessagesAfterThreshold,
                  LAMBDA m : isRequestingMore(m, requestPatterns))
  IN IF Len(substantiveResponses) < assistantResponseThreshold THEN Return(FALSE)
     ELSE IF index < 0 THEN Throw("TypeError", FALSE)
     ELSE IF Len(userMessagesAfterThreshold) = 0 THEN Return(FALSE)
     ELSE Return(Len(requestingMore) >= 2)

\* detectSaturation
detectSaturation(msgs, options) ==
  LET assistantResponseThreshold ==
        optionOr(options, "assistantResponseThreshold", 3)
      minAssistantLength == optionOr(options, "minAssistantLength", 200)
      requestPatterns == optionOr(options, "requestPatterns", DefaultRequestPatterns)
      substantiveResponses ==
        SelectSeq(msgs, LAMBDA m : m.role = "assistant"
                                     /\ Len(m.content) >= minAssistantLength)
      \* substantiveResponses[assistantResponseThreshold - 1], zero-based
      index == assistantResponseThreshold - 1
      thresholdTimestamp == substantiveResponses[index + 1].timestamp
      userMessagesAfterThreshold ==
        SelectSeq(msgs, LAMBDA m : isUser(m) /\ m.timestamp > thresholdTimestamp)
      requestingMore ==
        SelectSeq(userMessagesAfterThreshold,
                  LAMBDA m : isRequestingMore(m, requestPatterns))
  IN IF Len(substantiveResponses) < assistantResponseThreshold THEN Return(FALSE)
     \* reading .timestamp of undefined throws
     ELSE IF index < 0 \/ index >= Len(substantiveResponses)
          THEN Throw("TypeError", FALSE)
     ELSE IF Len(userMessagesAfterThreshold) = 0 THEN Return(FALSE)
     ELSE Return(Len(requestingMore) >= 2)

\* pushIf with unshift in place of push
pushIfFront(signals, completion, tag) ==
  IF completion.value THEN <<tag>> \o signals ELSE signals

\* signals.push(tag) when the detector's completion is the value true
pushIf(signals, completion, tag) ==
  IF completion.value THEN Append(signals, tag) ELSE signals

\* check with its signals array kept at module level: the tags of the call
\* before are still in it
checkSharedSignals(msgs, options) ==
  LET loop     == detectLoop(msgs, optionOr(options, "loop", <<>>))
      velocity == detectVelocityCollapse(msgs, optionOr(options, "velocityCollapse", <<>>))
      scope    == detectScopeCreep(msgs, optionOr(options, "scopeCreep", <<>>))
      sat      == detectSaturation(msgs, optionOr(options, "saturation", <<>>))
      s0 == IF call.fn = "check" THEN call.result.value.signals ELSE <<>>
      s1 == pushIf(s0, loop, "loop")
      s2 == pushIf(s1, velocity, "velocity-collapse")
      s3 == pushIf(s2, scope, "scope-creep")
      s4 == pushIf(s3, sat, "saturation")
      NoResult == [triggered |-> FALSE, signals |-> <<>>]
  IN IF loop.type = "throw" THEN Throw(loop.error, NoResult)
     ELSE IF velocity.type = "throw" THEN Throw(velocity.error, NoResult)
     ELSE IF scope.type = "throw" THEN Throw(scope.error, NoResult)
     ELSE IF sat.type = "throw" THEN Throw(sat.error, NoResult)
     ELSE Return([triggered |-> Len(s4) > 0, signals |-> s4])

\* check: the four detectors in order; the first that throws ends the call
check(msgs, options) ==
  LET loop     == detectLoop(msgs, optionOr(options, "loop", <<>>))
      velocity == detectVelocityCollapse(msgs, optionOr(options, "velocityCollapse", <<>>))
      scope    == detectScopeCreep(msgs, optionOr(options, "scopeCreep", <<>>))
      sat      == detectSaturation(msgs, optionOr(options, "saturation", <<>>))
      s1 == pushIf(<<>>, loop, "loop")
      s2 == pushIf(s1, velocity, "velocity-collapse")
      s3 == pushIf(s2, scope, "scope-creep")
      s4 == pushIf(s3, sat, "saturation")
      NoResult == [triggered |-> FALSE, signals |-> <<>>]
  IN IF loop.type = "throw" THEN Throw(loop.error, NoResult)
     ELSE IF velocity.type = "throw" THEN Throw(velocity.error, NoResult)
     ELSE IF scope.type = "throw" THEN Throw(scope.error, NoResult)
     ELSE IF sat.type = "throw" THEN Throw(sat.error, NoResult)
     ELSE Return([triggered |-> Len(s4) > 0, signals |-> s4])

(***************************************************************************)
(* The state machine: the caller's conversation grows by one message at a  *)
(* time, and the caller calls the library on it.  call holds the last call *)
(* made on the conversation as it stands: the function, the options passed *)
(* and the completion.  A call reads nothing of the call before it, so the *)
(* calls are taken from the states where none is recorded.                 *)
(***************************************************************************)
NoCall == [fn |-> "none", options |-> <<>>, result |-> Return(FALSE)]

\* past holds one earlier call with the conversation it was made on
NoPast == [fn |-> "none", messages |-> <<>>, options |-> <<>>, result |-> Return(FALSE)]

Message(role, content, timestamp) ==
  [role |-> role, content |-> content, timestamp |-> timestamp]

Init ==
  /\ messages = <<>>
  /\ call = NoCall
  /\ past = NoPast

\* the caller appends a message of the pool to the conversation
AddMessage(pool) ==
  /\ Len(messages) < MaxMsgs
  /\ \E m \in pool : messages' = Append(messages, m)
  /\ call' = NoCall
  /\ UNCHANGED past

CallDetectLoop(optionSet) ==
  /\ call = NoCall
  /\ \E o \in optionSet :
       call' = [fn |-> "detectLoop", options |-> o, result |-> detectLoop(messages, o)]
  /\ UNCHANGED <<messages, past>>

CallDetectVelocityCollapse(optionSet) ==
  /\ call = NoCall
  /\ \E o \in optionSet :
       call' = [fn |-> "detectVelocityCollapse", options |-> o,
                result |-> detectVelocityCollapse(messages, o)]
  /\ UNCHANGED <<messages, past>>

CallDetectScopeCreep(optionSet) ==
  /\ call = NoCall
  /\ \E o \in optionSet :
       call' = [fn |-> "detectScopeCreep", options |-> o,
                result |-> detectScopeCreep(messages, o)]
  /\ UNCHANGED <<messages, past>>

\* CallDetectSaturation with the filter done in place: the conversation is
\* left holding the assistant messages only
CallDetectSaturationFiltering(optionSet) ==
  /\ call = NoCall
  /\ \E o \in optionSet :
       call' = [fn |-> "detectSaturation", options |-> o,
                result |-> detectSaturation(messages, o)]
  /\ messages' = SelectSeq(messages, LAMBDA m : m.role = "assistant")
  /\ UNCHANGED past

CallDetectSaturation(optionSet) ==
  /\ call = NoCall
  /\ \E o \in optionSet :
       call' = [fn |-> "detectSaturation", options |-> o,
                result |-> detectSaturation(messages, o)]
  /\ UNCHANGED <<messages, past>>

CallCheck(optionSet) ==
  /\ call = NoCall
  /\ \E o \in optionSet :
       call' = [fn |-> "check", options |-> o, result |-> check(messages, o)]
  /\ UNCHANGED <<messages, past>>

\* the user messages of the conversation, in order
UserMessages == SelectSeq(messages, LAMBDA m : m.role = "user")

\* the last n elements of s (all of s when it has fewer)
LastN(s, n) == SubSeq(s, (IF Len(s) > n THEN Len(s) - n ELSE 0) + 1, Len(s))

\* s without its last n elements
AllButLastN(s, n) == SubSeq(s, 1, Len(s) - n)

(***************************************************************************)
(* Loop detection on its own: short requests that repeat, differ in case   *)
(* and punctuation, share some words or none, or are empty.  The floors    *)
(* lie off the similarities these texts reach (1, 2/sqrt(6), 1/2, 0).      *)
(***************************************************************************)
LoopContents ==
  { <<"a"," ","b">>,
    <<"A",","," ","b","!">>,
    <<"a"," ","b"," ","c">>,
    <<"a"," ","d">>,
    <<>>,
    ConstructorKey }

LoopPool ==
  {Message("user", c, 0) : c \in LoopContents} \cup {Message("assistant", <<"a"," ","b">>, 0)}

LoopOptions ==
  {<<>>} \cup
  {[threshold |-> t] : t \in 0..3} \cup
  {[threshold |-> t, similarityFloor |-> f] :
     t \in 2..3, f \in {Ratio(2, 5), Ratio(9, 10)}}

AddLoopMessage == AddMessage(LoopPool)
LoopCall == CallDetectLoop(LoopOptions)

NextLoop == AddLoopMessage \/ LoopCall

SpecLoop == Init /\ [][NextLoop]_vars

\* the number of times a term occurs in a token sequence
TermCount(term, tokens) == Cardinality({i \in DOMAIN tokens : tokens[i] = term})

RECURSIVE SumOverTerms(_, _)
\* the sum of f[t] over the terms t
SumOverTerms(terms, f) ==
  IF terms = {} THEN 0
  ELSE LET t == CHOOSE x \in terms : TRUE
       IN f[t] + SumOverTerms(terms \ {t}, f)

\* the cosine similarity of the term-frequency vectors of two texts is at
\* least floor; the similarity is 0 when a norm is 0
CosineAtLeast(textA, textB, floor) ==
  LET ta == tokenise(textA)
      tb == tokenise(textB)
      terms == Range(ta) \cup Range(tb)
      dot == SumOverTerms(terms, [t \in terms |-> TermCount(t, ta) * TermCount(t, tb)])
      na2 == SumOverTerms(terms, [t \in terms |-> TermCount(t, ta) * TermCount(t, ta)])
      nb2 == SumOverTerms(terms, [t \in terms |-> TermCount(t, tb) * TermCount(t, tb)])
  IN IF na2 * nb2 = 0 THEN floor.n <= 0
     ELSE \/ floor.n <= 0
          \/ dot * dot * floor.d * floor.d >= floor.n * floor.n * na2 * nb2

\* what C3 says detectLoop returns on the conversation
LoopExpected(options) ==
  LET threshold == optionOr(options, "threshold", 3)
      floor     == optionOr(options, "similarityFloor", Ratio(3, 5))
      window    == LastN(UserMessages, threshold)
  IN /\ Len(UserMessages) >= threshold
     /\ \A i \in 1..(Len(window) - 1) :
          CosineAtLeast(window[i].content, window[i + 1].content, floor)

\* C3: detectLoop returns true if and only if there are at least threshold
\* user messages and every consecutive pair among the last threshold of them
\* has cosine similarity at least similarityFloor
C3_LoopIffSimilar ==
  call.fn = "detectLoop" =>
    /\ call.result.type = "normal"
    /\ call.result.value = LoopExpected(call.options)

(***************************************************************************)
(* Velocity collapse on its own: user messages of length 0, 1 and 4 at any *)
(* of the timestamps (the order of timestamps is not validated), and an    *)
(* assistant message the detector must not count.                          *)
(***************************************************************************)
Timestamps == 0..MaxTs

VelocityContents == { <<>>, <<"a">>, <<"a","b","c","d">> }

VelocityPool ==
  {Message("user", c, t) : c \in VelocityContents, t \in Timestamps}
    \cup {Message("assistant", <<"a","b","c","d">>, 0)}

VelocityOptions ==
  { <<>>,
    [windowSize |-> 0],
    [windowSize |-> 1],
    [windowSize |-> 2],
    [windowSize |-> 1, lengthDropRatio |-> Ratio(1, 4)],
    [windowSize |-> 2, frequencyDropRatio |-> Fin(2)] }

AddVelocityMessage == AddMessage(VelocityPool)
VelocityCall == CallDetectVelocityCollapse(VelocityOptions)

NextVelocity == AddVelocityMessage \/ VelocityCall

SpecVelocity == Init /\ [][NextVelocity]_vars

\* the sum of the content lengths of a group of messages
LengthSum(group) == SumSeq([i \in DOMAIN group |-> Len(group[i].content)])

\* the sum of the gaps between consecutive messages of one group
GapSum(group) ==
  SumSeq([i \in 1..(Len(group) - 1) |-> group[i + 1].timestamp - group[i].timestamp])

\* the number of gaps inside one group
GapCount(group) == IF Len(group) = 0 THEN 0 ELSE Len(group) - 1

\* mean length of recent / mean length of earlier <= ratio, the earlier mean
\* being > 0 (a mean exists only for a group that has messages)
LengthCheck(earlier, recent, ratio) ==
  /\ Len(earlier) > 0 /\ Len(recent) > 0
  /\ LengthSum(earlier) > 0
  /\ LengthSum(recent) * Len(earlier) * ratio.d
       <= ratio.n * LengthSum(earlier) * Len(recent)

\* both groups have a gap, the earlier mean gap is > 0 and
\* mean gap of recent / mean gap of earlier >= ratio
FrequencyCheck(earlier, recent, ratio) ==
  /\ GapCount(earlier) > 0 /\ GapCount(recent) > 0
  /\ GapSum(earlier) > 0
  /\ GapSum(recent) * GapCount(earlier) * ratio.d
       >= ratio.n * GapSum(earlier) * GapCount(recent)

\* what C4 says detectVelocityCollapse returns on the conversation
VelocityExpected(options) ==
  LET w       == optionOr(options, "windowSize", 4)
      lengthR == optionOr(options, "lengthDropRatio", Ratio(3, 10))
      freqR   == optionOr(options, "frequencyDropRatio", Fin(3))
      earlier == AllButLastN(UserMessages, w)
      recent  == LastN(UserMessages, w)
  IN /\ Len(UserMessages) >= 2 * w
     /\ \/ LengthCheck(earlier, recent, lengthR)
        \/ FrequencyCheck(earlier, recent, freqR)

\* C4: detectVelocityCollapse returns true if and only if there are at least
\* 2*windowSize user messages and the length check or the frequency check
\* holds of earlier (all but the last windowSize) and recent (the last
\* windowSize), the gaps being taken inside each group only
C4_VelocityIffChecks ==
  call.fn = "detectVelocityCollapse" =>
    /\ call.result.type = "normal"
    /\ call.result.value = VelocityExpected(call.options)

\* C4 witness: the length check fails and the frequency check alone fires,
\* with a gap across the group boundary that differs from the gaps inside
C4_Witness ==
  /\ call.fn = "detectVelocityCollapse"
  /\ call.result.value
  /\ Len(UserMessages) >= 4
  /\ "windowSize" \in DOMAIN call.options /\ call.options.windowSize = 2
  /\ ~LengthCheck(AllButLastN(UserMessages, 2), LastN(UserMessages, 2),
                  optionOr(call.options, "lengthDropRatio", Ratio(3, 10)))
  /\ UserMessages[Len(UserMessages) - 1].timestamp
       < UserMessages[Len(UserMessages) - 2].timestamp

(***************************************************************************)
(* Scope creep on its own: user messages of length 0 to 3, with and        *)
(* without a question mark, and an assistant message the detector must not *)
(* count.  Timestamps are not read.                                        *)
(***************************************************************************)
ScopeContents ==
  { <<>>, <<"a">>, <<"?">>, <<"a","?">>, <<"a","b","c">> }

ScopePool ==
  {Message("user", c, 0) : c \in ScopeContents}
    \cup {Message("assistant", <<"a","b","c","?">>, 0)}

ScopeOptions ==
  { <<>>,
    [windowSize |-> 0],
    [windowSize |-> 1],
    [windowSize |-> 2],
    [windowSize |-> 1, growthRatio |-> Fin(2)] }

AddScopeMessage == AddMessage(ScopePool)
ScopeCall == CallDetectScopeCreep(ScopeOptions)

NextScope == AddScopeMessage \/ ScopeCall

SpecScope == Init /\ [][NextScope]_vars

\* the number of messages of a group whose content contains "?"
QuestionMessages(group) ==
  Cardinality({i \in DOMAIN group : \E j \in DOMAIN group[i].content :
                                       group[i].content[j] = "?"})

\* the windowSize user messages immediately before the last windowSize
ScopeEarlier(w) == LastN(AllButLastN(UserMessages, w), w)

\* the last windowSize user messages
ScopeRecent(w) == LastN(UserMessages, w)

\* (a) mean length of recent >= growthRatio * mean length of earlier
GrowthHolds(earlier, recent, ratio) ==
  /\ Len(earlier) > 0 /\ Len(recent) > 0
  /\ LengthSum(recent) * Len(earlier) * ratio.d
       >= ratio.n * LengthSum(earlier) * Len(recent)

\* what C5 says detectScopeCreep returns on the conversation
ScopeExpected(options) ==
  LET w     == optionOr(options, "windowSize", 5)
      ratio == optionOr(options, "growthRatio", Ratio(3, 2))
  IN /\ Len(UserMessages) >= 2 * w
     /\ GrowthHolds(ScopeEarlier(w), ScopeRecent(w), ratio)
     /\ QuestionMessages(ScopeRecent(w)) >= QuestionMessages(ScopeEarlier(w))

\* C5: detectScopeCreep returns true if and only if there are at least
\* 2*windowSize user messages, (a) the mean length of recent is at least
\* growthRatio times the mean length of earlier and (b) recent has at least
\* as many messages with a question mark as earlier; for every input,
\* windows of empty messages included
C5_ScopeIffBoth ==
  call.fn = "detectScopeCreep" =>
    /\ call.result.type = "normal"
    /\ call.result.value = ScopeExpected(call.options)

\* C5 amended: as C5, except that detectScopeCreep returns false when the
\* earlier and the recent window both have mean length 0 (0/0 is NaN, and
\* NaN >= growthRatio is false)
C5_ScopeIffBothUnlessAllEmpty ==
  call.fn = "detectScopeCreep" =>
    /\ call.result.type = "normal"
    /\ call.result.value =
         LET w == optionOr(call.options, "windowSize", 5)
         IN /\ ScopeExpected(call.options)
            /\ ~(LengthSum(ScopeEarlier(w)) = 0 /\ LengthSum(ScopeRecent(w)) = 0)

\* C5 witness: scope creep fires on windows of two messages, the earlier
\* window holding a question
C5_Witness ==
  /\ call.fn = "detectScopeCreep"
  /\ call.result.value
  /\ optionOr(call.options, "windowSize", 5) = 2
  /\ QuestionMessages(ScopeEarlier(2)) > 0
  /\ LengthSum(ScopeEarlier(2)) > 0

(***************************************************************************)
(* Saturation on its own: assistant messages of length 0 and 2, user       *)
(* messages that ask for more (in capitals) or do not, each at timestamp 0 *)
(* or 1, in any order.                                                     *)
(***************************************************************************)
SaturationPool ==
  {Message("assistant", c, t) : c \in {<<>>, <<"a","b">>}, t \in {0, 1}}
    \cup {Message("user", c, t) :
            c \in {<<"M","o","r","e","?">>, <<"o","k">>}, t \in {0, 1}}

SaturationOptions ==
  { <<>>,
    [assistantResponseThreshold |-> 0],
    [assistantResponseThreshold |-> 1, minAssistantLength |-> 2],
    [assistantResponseThreshold |-> 2, minAssistantLength |-> 2],
    [assistantResponseThreshold |-> 1, minAssistantLength |-> 0,
     requestPatterns |-> << <<"o","k">> >>],
    [assistantResponseThreshold |-> 1, minAssistantLength |-> 2,
     requestPatterns |-> <<>>] }

AddSaturationMessage == AddMessage(SaturationPool)
SaturationCall == CallDetectSaturation(SaturationOptions)

NextSaturation == AddSaturationMessage \/ SaturationCall

SpecSaturation == Init /\ [][NextSaturation]_vars

\* the assistant messages of content length >= minLength, in conversation order
Substantive(minLength) ==
  SelectSeq(messages, LAMBDA m : m.role = "assistant" /\ Len(m.content) >= minLength)

\* the positions of the user messages later than timestamp ts whose
\* lower-cased content contains a pattern
MoreRequestsAfter(ts, patterns) ==
  {i \in DOMAIN messages :
     /\ messages[i].role = "user"
     /\ messages[i].timestamp > ts
     /\ \E p \in DOMAIN patterns :
          includes(toLowerCase(messages[i].content), patterns[p])}

\* what C6 says makes detectSaturation return true; there is no N-th
\* substantive message when N is 0
SaturationExpected(options) ==
  LET N         == optionOr(options, "assistantResponseThreshold", 3)
      minLength == optionOr(options, "minAssistantLength", 200)
      patterns  == optionOr(options, "requestPatterns", DefaultRequestPatterns)
  IN /\ N >= 1
     /\ Len(Substantive(minLength)) >= N
     /\ Cardinality(MoreRequestsAfter(Substantive(minLength)[N].timestamp, patterns)) >= 2

\* C6: detectSaturation returns true if and only if there are at least N
\* substantive assistant messages and at least 2 user messages, later than
\* the N-th of them, whose lower-cased content contains a pattern
C6_SaturationIffTwoRequests ==
  call.fn = "detectSaturation" =>
    ((call.result.type = "normal" /\ call.result.value)
       <=> SaturationExpected(call.options))

\* C6 witness: saturation fires, and one of the two requests counted stands
\* before the substantive response in the conversation while its timestamp
\* is later
C6_Witness ==
  /\ call.fn = "detectSaturation"
  /\ call.result.type = "normal" /\ call.result.value
  /\ SaturationExpected(call.options)
  /\ \E i, j \in DOMAIN messages :
       /\ i < j
       /\ messages[j].role = "assistant"
       /\ messages[j] = Substantive(optionOr(call.options, "minAssistantLength", 200))[1]
       /\ i \in MoreRequestsAfter(messages[j].timestamp,
                                  optionOr(call.options, "requestPatterns",
                                           DefaultRequestPatterns))

(***************************************************************************)
(* The library as a whole: every detector and check, called on             *)
(* conversations of empty, short and long user messages (the long one asks *)
(* for more) and a one-letter assistant message.                           *)
(***************************************************************************)
MoreText == <<"m","o","r","e">>

Pool ==
  {Message("user", c, t) : c \in {<<>>, <<"a">>, MoreText}, t \in {0, 1}}
    \cup {Message("assistant", <<"a">>, 0)}

SomeLoopOptions == { <<>>, [threshold |-> 0], [threshold |-> 2] }

SomeVelocityOptions == { <<>>, [windowSize |-> 0], [windowSize |-> 1] }

SomeScopeOptions == { <<>>, [windowSize |-> 0], [windowSize |-> 1] }

SomeSaturationOptions ==
  { <<>>,
    [assistantResponseThreshold |-> 0],
    [assistantResponseThreshold |-> 1, minAssistantLength |-> 1] }

CheckOptions ==
  { <<>>,
    [loop |-> [threshold |-> 2]],
    [velocityCollapse |-> [windowSize |-> 1]],
    [scopeCreep |-> [windowSize |-> 1]],
    [saturation |-> [assistantResponseThreshold |-> 1, minAssistantLength |-> 1]],
    [loop |-> [threshold |-> 2],
     velocityCollapse |-> [windowSize |-> 1],
     scopeCreep |-> [windowSize |-> 1],
     saturation |-> [assistantResponseThreshold |-> 1, minAssistantLength |-> 1]],
    [saturation |-> [assistantResponseThreshold |-> 0]],
    [loop |-> [threshold |-> 0], saturation |-> [assistantResponseThreshold |-> 0]] }

AddPoolMessage == AddMessage(Pool)
LoopCalled == CallDetectLoop(SomeLoopOptions)
VelocityCalled == CallDetectVelocityCollapse(SomeVelocityOptions)
ScopeCalled == CallDetectScopeCreep(SomeScopeOptions)
SaturationCalled == CallDetectSaturation(SomeSaturationOptions)
CheckCalled == CallCheck(CheckOptions)

Next ==
  \/ AddPoolMessage
  \/ LoopCalled
  \/ VelocityCalled
  \/ ScopeCalled
  \/ SaturationCalled
  \/ CheckCalled

Spec == Init /\ [][Next]_vars

\* the tags, in the order check evaluates the detectors
Tags == <<"loop", "velocity-collapse", "scope-creep", "saturation">>

\* the position of a tag in Tags (0 when it is none of them)
TagPosition(tag) ==
  IF \E i \in DOMAIN Tags : Tags[i] = tag
  THEN CHOOSE i \in DOMAIN Tags : Tags[i] = tag
  ELSE 0

\* C1: the result of check has signals a subsequence of
\* [loop, velocity-collapse, scope-creep, saturation] (known tags only, each
\* at most once, in that order) and triggered true exactly when signals is
\* not empty
C1_SignalDomain ==
  (call.fn = "check" /\ call.result.type = "normal") =>
    LET signals == call.result.value.signals
    IN /\ \A i \in DOMAIN signals : TagPosition(signals[i]) > 0
       /\ \A i, j \in DOMAIN signals :
            i < j => TagPosition(signals[i]) < TagPosition(signals[j])
       /\ call.result.value.triggered = (Len(signals) > 0)

\* C1 witness: check returned two signals
C1_Witness ==
  /\ call.fn = "check" /\ call.result.type = "normal"
  /\ Len(call.result.value.signals) >= 2
  /\ call.result.value.triggered

\* the detector of a tag called on its own with the sub-record check passes it
DetectorAlone(tag, options) ==
  CASE tag = "loop" -> detectLoop(messages, optionOr(options, "loop", <<>>))
    [] tag = "velocity-collapse" ->
         detectVelocityCollapse(messages, optionOr(options, "velocityCollapse", <<>>))
    [] tag = "scope-creep" ->
         detectScopeCreep(messages, optionOr(options, "scopeCreep", <<>>))
    [] tag = "saturation" ->
         detectSaturation(messages, optionOr(options, "saturation", <<>>))

\* C2: check's signals contains a detector's tag if and only if that
\* detector, called on its own with the same conversation and its own
\* sub-record, returns true, whatever the other detectors did
C2_TagIffDetector ==
  call.fn = "check" =>
    \A t \in DOMAIN Tags :
      (/\ call.result.type = "normal"
       /\ \E i \in DOMAIN call.result.value.signals :
            call.result.value.signals[i] = Tags[t])
      <=> (/\ DetectorAlone(Tags[t], call.options).type = "normal"
           /\ DetectorAlone(Tags[t], call.options).value)

\* C7: no ratio is taken over a zero denominator: with an earlier window of
\* mean length 0 detectScopeCreep does not trigger and detectVelocityCollapse
\* triggers by the frequency check only; with an earlier mean gap of 0 it
\* triggers by the length check only; the similarity of two texts of which
\* one has no tokens is 0
C7_ZeroDenominatorNoTrigger ==
  /\ call.fn = "detectScopeCreep" =>
       LET w == optionOr(call.options, "windowSize", 5)
       IN (/\ w >= 1 /\ Len(UserMessages) >= 2 * w
           /\ LengthSum(ScopeEarlier(w)) = 0)
          => (call.result.type = "normal" /\ ~call.result.value)
  /\ call.fn = "detectVelocityCollapse" =>
       LET w       == optionOr(call.options, "windowSize", 4)
           earlier == AllButLastN(UserMessages, w)
           recent  == LastN(UserMessages, w)
           freqR   == optionOr(call.options, "frequencyDropRatio", Fin(3))
           lengthR == optionOr(call.options, "lengthDropRatio", Ratio(3, 10))
       IN (w >= 1 /\ Len(UserMessages) >= 2 * w /\ call.result.value) =>
            /\ LengthSum(earlier) = 0 => FrequencyCheck(earlier, recent, freqR)
            /\ GapSum(earlier) = 0 => LengthCheck(earlier, recent, lengthR)
  /\ \A i, j \in DOMAIN messages :
       (tokenise(messages[i].content) = <<>> \/ tokenise(messages[j].content) = <<>>)
         => cosineSimilarity(tokenise(messages[i].content),
                             tokenise(messages[j].content)) = SimZero

\* C8: every call returns a value; none raises an exception
C8_NeverThrows ==
  call.fn # "none" => call.result.type = "normal"

\* C9: insufficient data is never a trigger, and check on the empty
\* conversation with default options returns triggered = false, signals = []
C9_InsufficientDataFalse ==
  /\ (call.fn = "detectLoop"
        /\ Len(UserMessages) < optionOr(call.options, "threshold", 3))
       => (call.result.type = "normal" /\ ~call.result.value)
  /\ (call.fn = "detectVelocityCollapse"
        /\ Len(UserMessages) < 2 * optionOr(call.options, "windowSize", 4))
       => (call.result.type = "normal" /\ ~call.result.value)
  /\ (call.fn = "detectScopeCreep"
        /\ Len(UserMessages) < 2 * optionOr(call.options, "windowSize", 5))
       => (call.result.type = "normal" /\ ~call.result.value)
  /\ (call.fn = "detectSaturation"
        /\ Len(Substantive(optionOr(call.options, "minAssistantLength", 200)))
             < optionOr(call.options, "assistantResponseThreshold", 3))
       => (call.result.type = "normal" /\ ~call.result.value)
  /\ (call.fn = "check" /\ call.options = <<>> /\ messages = <<>>)
       => call.result = Return([triggered |-> FALSE, signals |-> <<>>])

\* C9 witness: detectLoop was called with threshold 2 on a conversation of
\* one user message and an assistant message of the same text
C9_Witness ==
  /\ call.fn = "detectLoop"
  /\ optionOr(call.options, "threshold", 3) = 2
  /\ Len(UserMessages) = 1
  /\ \E i \in DOMAIN messages :
       messages[i].role = "assistant" /\ messages[i].content = UserMessages[1].content
  /\ ~call.result.value

(***************************************************************************)
(* The loop scenario: the user sends the three rewrite requests in order   *)
(* and assistant replies arrive anywhere between them.  A message's        *)
(* timestamp is its arrival position.                                      *)
(***************************************************************************)
MaxAssistants == 2

Rewrite1 ==
  <<"R","e","w","r","i","t","e"," ","t","h","e"," ","i","n","t","r","o",
    " ","p","a","r","a","g","r","a","p","h">>

Rewrite2 ==
  <<"R","e","w","r","i","t","e"," ","t","h","e"," ","i","n","t","r","o",
    " ","p","a","r","a","g","r","a","p","h"," ","d","i","f","f","e","r",
    "e","n","t","l","y">>

Rewrite3 ==
  <<"R","e","w","r","i","t","e"," ","t","h","e"," ","i","n","t","r","o",
    " ","p","a","r","a","g","r","a","p","h"," ","a","g","a","i","n"," ",
    "p","l","e","a","s","e">>

RewriteRequests == <<Rewrite1, Rewrite2, Rewrite3>>

RewriteReplies == { Rewrite1, <<"o","k">> }

CountRole(role) == Cardinality({i \in DOMAIN messages : messages[i].role = role})

\* the user sends the next request of the scenario
AddRewriteRequest ==
  /\ CountRole("user") < Len(RewriteRequests)
  /\ messages' = Append(messages,
                        Message("user", RewriteRequests[CountRole("user") + 1],
                                Len(messages)))
  /\ call' = NoCall
  /\ UNCHANGED past

\* an assistant reply, of any of the texts, arrives
AddRewriteReply ==
  /\ CountRole("assistant") < MaxAssistants
  /\ \E c \in RewriteReplies :
       messages' = Append(messages, Message("assistant", c, Len(messages)))
  /\ call' = NoCall
  /\ UNCHANGED past

RewriteLoopCall == CallDetectLoop({<<>>, [threshold |-> 2]})
RewriteCheck == CallCheck({<<>>})

NextRewrite ==
  \/ AddRewriteRequest
  \/ AddRewriteReply
  \/ RewriteLoopCall
  \/ RewriteCheck

SpecRewrite == Init /\ [][NextRewrite]_vars

\* the user messages are the three requests of the scenario, in order
IsRewriteScenario ==
  /\ Len(UserMessages) = 3
  /\ \A i \in 1..3 : UserMessages[i].content = RewriteRequests[i]

\* C10: with default options the three rewrite requests, with any assistant
\* messages anywhere among them, give detectLoop = true and a check result
\* whose signals include loop; and detectLoop returns on a conversation what
\* it returns on its user messages alone
C10_RewriteLoop ==
  /\ (call.fn = "detectLoop" /\ call.options = <<>> /\ IsRewriteScenario)
       => (call.result.type = "normal" /\ call.result.value)
  /\ (call.fn = "check" /\ call.options = <<>> /\ IsRewriteScenario)
       => /\ call.result.type = "normal"
          /\ \E i \in DOMAIN call.result.value.signals :
               call.result.value.signals[i] = "loop"
  /\ call.fn = "detectLoop"
       => call.result = detectLoop(UserMessages, call.options)

\* C10 witness: check found the loop with two assistant replies among the
\* requests, one of them repeating the user's first request as the last
\* message
C10_Witness ==
  /\ call.fn = "check" /\ IsRewriteScenario
  /\ CountRole("assistant") = 2
  /\ messages[Len(messages)].role = "assistant"
  /\ messages[Len(messages)].content = Rewrite1
  /\ \E i \in DOMAIN call.result.value.signals :
       call.result.value.signals[i] = "loop"

(***************************************************************************)
(* The similarity of token sequences.  cosineSimilarity is internal to the *)
(* library: detectLoop applies it to the tokens of two user messages.  The *)
(* call record of an application holds the two token arrays passed.        *)
(***************************************************************************)
SimilarityContents ==
  { <<>>,
    <<" ">>,
    <<"?","!">>,
    <<"a"," ","b">>,
    <<"B">>,
    ConstructorKey,
    ProtoKey }

SimilarityPool == {Message("user", c, 0) : c \in SimilarityContents}

AddSimilarityMessage == AddMessage(SimilarityPool)

\* cosineSimilarity(tokenise(x.content), tokenise(y.content)) for two
\* messages of the conversation
CallCosineSimilarity ==
  /\ call = NoCall
  /\ \E i \in DOMAIN messages, j \in DOMAIN messages :
       LET tokensA == tokenise(messages[i].content)
           tokensB == tokenise(messages[j].content)
       IN call' = [fn |-> "cosineSimilarity",
                   options |-> [tokensA |-> tokensA, tokensB |-> tokensB],
                   result |-> Return(cosineSimilarity(tokensA, tokensB))]
  /\ UNCHANGED <<messages, past>>

SimilarityLoopCall == CallDetectLoop({[threshold |-> 2, similarityFloor |-> Fin(0)]})

NextSimilarity == AddSimilarityMessage \/ CallCosineSimilarity \/ SimilarityLoopCall

SpecSimilarity == Init /\ [][NextSimilarity]_vars

\* C11: the cosine similarity of two token sequences is the number 0
\* whenever at least one of the two is empty (both empty included); it is
\* never NaN.
C11_EmptyTokensZero ==
  (/\ call.fn = "cosineSimilarity"
   /\ \/ call.options.tokensA = <<>>
      \/ call.options.tokensB = <<>>)
    => call.result.value = SimZero

(***************************************************************************)
(* Repeated calls.  The caller calls any exported function in any state,   *)
(* whatever the call before was, may keep a call it made together with the *)
(* conversation it passed, and may start a conversation over.              *)
(***************************************************************************)
\* the exported functions by name
Exported(fn, msgs, options) ==
  CASE fn = "detectLoop" -> detectLoop(msgs, options)
    [] fn = "detectVelocityCollapse" -> detectVelocityCollapse(msgs, options)
    [] fn = "detectScopeCreep" -> detectScopeCreep(msgs, options)
    [] fn = "detectSaturation" -> detectSaturation(msgs, options)
    [] fn = "check" -> check(msgs, options)

RepeatPool == {Message("user", MoreText, 1), Message("assistant", <<"a">>, 0)}

\* the calls made: a function and the options passed to it
RepeatCalls ==
  { <<"detectLoop", [threshold |-> 2]>>,
    <<"detectVelocityCollapse", [windowSize |-> 1]>>,
    <<"detectScopeCreep", [windowSize |-> 1]>>,
    <<"detectSaturation", [assistantResponseThreshold |-> 1, minAssistantLength |-> 1]>>,
    <<"detectSaturation", [assistantResponseThreshold |-> 0]>>,
    <<"check", <<>>>>,
    <<"check", [loop |-> [threshold |-> 2],
                saturation |-> [assistantResponseThreshold |-> 1,
                                minAssistantLength |-> 1]]>> }

AddRepeatMessage == AddMessage(RepeatPool)

\* the caller starts over with an empty conversation
StartOver ==
  /\ messages # <<>>
  /\ messages' = <<>>
  /\ call' = NoCall
  /\ UNCHANGED past

\* a call made in any state, the call before it still recorded
CallAgain ==
  /\ \E c \in RepeatCalls :
       call' = [fn |-> c[1], options |-> c[2],
                result |-> Exported(c[1], messages, c[2])]
  /\ UNCHANGED <<messages, past>>

\* the caller keeps the last call and the conversation it was made on
RememberCall ==
  /\ call.fn # "none"
  /\ past' = [fn |-> call.fn, messages |-> messages,
              options |-> call.options, result |-> call.result]
  /\ UNCHANGED <<messages, call>>

NextRepeat == AddRepeatMessage \/ StartOver \/ CallAgain \/ RememberCall

SpecRepeat == Init /\ [][NextRepeat]_vars

CallerOptions ==
  SomeLoopOptions \cup SomeVelocityOptions \cup SomeScopeOptions
    \cup SomeSaturationOptions \cup CheckOptions

MalformedPool ==
  { Message("user", MoreText, 1),
    Message("assistant", <<"a">>, 0),
    Message("system", MoreText, 1) }

AddMalformedMessage == AddMessage(MalformedPool)

MalformedCall == call = NoCall /\ CallAgain

NextMalformed == AddMalformedMessage \/ MalformedCall

SpecMalformed == Init /\ [][NextMalformed]_vars

\* the role is one of the two of the Message type
HasKnownRole(m) == m.role \in {"user", "assistant"}

\* the conversation without its messages of unknown role
KnownRoleMessages == SelectSeq(messages, HasKnownRole)

\* C14 as stated: on a conversation holding a message whose role is neither
\* user nor assistant, check and every detector fail with a ValidationError
\* instead of returning.
C14_MalformedRejected ==
  (/\ call.fn # "none"
   /\ \E i \in DOMAIN messages : ~HasKnownRole(messages[i]))
    => (call.result.type = "throw" /\ call.result.error = "ValidationError")

\* C14: a message whose role is neither user nor assistant is not rejected
\* but ignored: check and every detector complete exactly as they do on the
\* conversation without such messages, and no call fails with a
\* ValidationError.
C14_UnknownRoleIgnored ==
  call.fn # "none" =>
    /\ call.result = Exported(call.fn, KnownRoleMessages, call.options)
    /\ call.result.error # "ValidationError"

\* detectLoop has returned true on two user requests with a message of
\* unknown role between them
C14_Witness ==
  /\ call.fn = "detectLoop"
  /\ call.result = Return(TRUE)
  /\ Len(messages) = 3
  /\ messages[1].role = "user"
  /\ messages[2].role = "system"
  /\ messages[3].role = "user"

(***************************************************************************)
(* Saturation as the conversation grows: the caller keeps a call to        *)
(* detectSaturation and calls again, with any options, after appending.    *)
(***************************************************************************)
GrowthPool ==
  { Message("assistant", <<"a","b">>, 0),
    Message("assistant", <<"a","b">>, 1),
    Message("assistant", <<>>, 1),
    Message("user", <<"M","o","r","e","?">>, 0),
    Message("user", <<"M","o","r","e","?">>, 1),
    Message("user", <<"o","k">>, 1) }

GrowthOptions ==
  { [assistantResponseThreshold |-> 0],
    [assistantResponseThreshold |-> 1, minAssistantLength |-> 2],
    [assistantResponseThreshold |-> 2, minAssistantLength |-> 2] }

AddGrowthMessage == AddMessage(GrowthPool)
GrowthCall == CallDetectSaturation(GrowthOptions)

NextGrowth == AddGrowthMessage \/ GrowthCall \/ RememberCall

SpecGrowth == Init /\ [][NextGrowth]_vars

\* s is t or a prefix of t
IsPrefix(s, t) == Len(s) <= Len(t) /\ SubSeq(t, 1, Len(s)) = s

\* C15: saturation latches: once detectSaturation has returned true on a
\* conversation, it returns true, under the same options, on every
\* conversation made from it by appending further messages of any role,
\* content and timestamp.
C15_SaturationLatches ==
  (/\ past.fn = "detectSaturation"
   /\ past.result = Return(TRUE)
   /\ call.fn = "detectSaturation"
   /\ call.options = past.options
   /\ IsPrefix(past.messages, messages))
    => call.result = Return(TRUE)

\* saturation was detected, a further substantive response was appended,
\* and it is detected again
C15_Witness ==
  /\ past.fn = "detectSaturation"
  /\ past.result = Return(TRUE)
  /\ call.fn = "detectSaturation"
  /\ call.options = past.options
  /\ messages = Append(past.messages, Message("assistant", <<"a","b">>, 1))
  /\ call.result = Return(TRUE)

=============================================================================
